---- MODULE Spec2Model ----
(***************************************************************************)
(* Union Beach Memorial Library - the calendar page's event list           *)
(* controller (src/src/js/calendar.js): filtering, sorting, clearing and   *)
(* exporting of the event cards read from the page's markup; the mobile    *)
(* menu and the form validation of main.js (src/unnamed/part_000); the     *)
(* image lightbox of the history page (src/src/js/history.js).             *)
(*                                                                         *)
(* Conventions                                                             *)
(*  - an event element is identified by its index in allEvents (markup     *)
(*    order); `children` is the order of the event elements inside the     *)
(*    [data-events-container] element;                                     *)
(*  - a date attribute is the tuple <<year, month, day, hour>> of an ISO   *)
(*    local date-time string ("2025-06-12T10:00:00"); <<>> is the empty    *)
(*    string and a tuple with month 13 is a string no engine parses;       *)
(*  - a Date object is [nan |-> BOOLEAN, t |-> hours since local midnight  *)
(*    of 1 January FirstYear]; nan is JavaScript's Invalid Date;           *)
(*  - the wall clock does not cross midnight during one page session:      *)
(*    `today` is chosen once;                                              *)
(*  - the text of an iCalendar file is the sequence of its lines, a line   *)
(*    the pair <<name, value>> of the text before and after the colon;     *)
(*  - `feedback` holds the updateStatusMessage and announceToScreenReader  *)
(*    calls of the last listener; only SpecFeedback follows the elements   *)
(*    and the timeouts these calls leave behind;                           *)
(*  - an index of the gallery counts from 0, as in history.js.             *)
(***************************************************************************)
EXTENDS Integers, Sequences, FiniteSets, TLC

VARIABLES
    cards,          \* the [data-event] elements of the markup, in markup order
    allEvents,      \* calendar.js:7   let allEvents = []
    today,          \* day number of the local date (new Date() at local midnight)
    typeFilter,     \* value of the [data-filter="type"] select
    dateFilter,     \* value of the [data-filter="date"] select
    sortControl,    \* value of the [data-sort] select
    display,        \* element.style.display of every event element
    dataHidden,     \* the data-hidden attribute of every event element
    children,       \* order of the event elements in [data-events-container]
    noEventsDisplay,\* style.display of the [data-no-events] element
    statusMessage,  \* textContent of the .status-message element
    lastOp,         \* the controller function that ran last
    download,       \* the file the last listener handed to the browser by
                    \* link.click(): link.download and the Blob's text
    openedUrls,     \* the URLs the last listener passed to window.open, in
                    \* order
    uncaught,       \* name of the exception that ended the last listener
                    \* uncaught, or ""
    feedback,       \* the updateStatusMessage and announceToScreenReader calls
                    \* of the last listener, in order
    announcements,  \* the elements announceToScreenReader appended to
                    \* document.body that have not been removed, in order
    statusTimers,   \* number of pending timeouts of updateStatusMessage
    menu,           \* the mobile menu: aria-expanded of .mobile-menu-toggle,
                    \* class active of .main-nav, focus on the toggle
    form,           \* the form[data-validate] of the page: its required fields,
                    \* what validateForm returned last and whether the last
                    \* submit event was prevented
    gallery         \* the image gallery: its items, the lightboxes attached to
                    \* the body, the inline overflow of the body and the
                    \* element that holds the focus

\* the state of the calendar page
calendarVars == <<cards, allEvents, today, typeFilter, dateFilter, sortControl,
                  display, dataHidden, children, noEventsDisplay, statusMessage,
                  download, openedUrls, uncaught, statusTimers>>

vars == <<cards, allEvents, today, typeFilter, dateFilter, sortControl, display,
          dataHidden, children, noEventsDisplay, statusMessage, lastOp,
          download, openedUrls, uncaught, feedback, announcements, statusTimers,
          menu, form, gallery>>

-----------------------------------------------------------------------------
(* Bounds *)

\* largest number of [data-event] elements on the page
MaxEvents == 3

\* the user acts while fewer than MaxPending timeouts are pending
MaxPending == 2

\* largest number of required fields of the form
MaxFields == 2

\* largest number of .gallery-item elements
MaxItems == 3

\* a gallery item is activated while fewer than MaxModals lightboxes are
\* attached
MaxModals == 2

\* first year of the modelled calendar; dates lie in FirstYear .. FirstYear + 3
FirstYear == 2024

-----------------------------------------------------------------------------
(* The Gregorian calendar behind JavaScript's Date (local time, no DST) *)

IsLeap(y) == (y % 4 = 0 /\ y % 100 # 0) \/ y % 400 = 0

\* m is a JavaScript month index, 0 .. 11
DaysInMonth(y, m) ==
    IF m = 1 THEN (IF IsLeap(y) THEN 29 ELSE 28)
    ELSE IF m \in {3, 5, 8, 10} THEN 30 ELSE 31

RECURSIVE DaysBeforeYear(_)
DaysBeforeYear(y) ==
    IF y <= FirstYear THEN 0
    ELSE DaysBeforeYear(y - 1) + (IF IsLeap(y - 1) THEN 366 ELSE 365)

RECURSIVE DaysBeforeMonth(_, _)
DaysBeforeMonth(y, m) ==
    IF m <= 0 THEN 0 ELSE DaysBeforeMonth(y, m - 1) + DaysInMonth(y, m - 1)

\* ECMAScript MakeDay: a month index past 11 carries into the year and a day
\* past the end of the month carries into the following month(s)
MakeDay(y, m, d) ==
    LET ym == y + (m \div 12)
        mn == m % 12
    IN  DaysBeforeYear(ym) + DaysBeforeMonth(ym, mn) + (d - 1)

Years == FirstYear .. (FirstYear + 3)

\* the days of the modelled calendar, numbered from 1 January FirstYear
Days == 0 .. (DaysBeforeYear(FirstYear + 4) - 1)

\* the local year, month index and day of the month of every day
CivilOfDay ==
    [n \in Days |->
        LET y == CHOOSE yy \in Years :
                    DaysBeforeYear(yy) <= n /\ n < DaysBeforeYear(yy + 1)
            m == CHOOSE mm \in 0..11 :
                    /\ MakeDay(y, mm, 1) <= n
                    /\ n < MakeDay(y, mm, 1) + DaysInMonth(y, mm)
        IN  <<y, m, n - MakeDay(y, m, 1) + 1>>]

YearFromDay(n) == CivilOfDay[n][1]
MonthFromDay(n) == CivilOfDay[n][2]
DateFromDay(n) == CivilOfDay[n][3]

-----------------------------------------------------------------------------
(* Date objects *)

InvalidDate == [nan |-> TRUE, t |-> 0]

DateAt(day, hour) == [nan |-> FALSE, t |-> day * 24 + hour]

\* new Date(string) for an ISO local date-time string
ParseDate(s) ==
    IF /\ Len(s) = 4
       /\ s[1] \in Years
       /\ s[2] \in 1..12
       /\ s[3] \in 1..DaysInMonth(s[1], s[2] - 1)
       /\ s[4] \in 0..23
    THEN DateAt(MakeDay(s[1], s[2] - 1, s[3]), s[4])
    ELSE InvalidDate

DayOf(date) == date.t \div 24

\* relational operators on Date objects compare the time values; a comparison
\* with NaN is false
\* mutant: a comparison with NaN is true
DateGe_NaNPasses(a, b) == a.nan \/ b.nan \/ a.t >= b.t

DateGe(a, b) == ~a.nan /\ ~b.nan /\ a.t >= b.t
DateLe(a, b) == ~a.nan /\ ~b.nan /\ a.t <= b.t

\* a.getMonth() === b.getMonth(): NaN === NaN is false
SameMonth(a, b) ==
    ~a.nan /\ ~b.nan /\ MonthFromDay(DayOf(a)) = MonthFromDay(DayOf(b))

\* a.getFullYear() === b.getFullYear()
SameFullYear(a, b) ==
    ~a.nan /\ ~b.nan /\ YearFromDay(DayOf(a)) = YearFromDay(DayOf(b))

\* const today = new Date(); today.setHours(0, 0, 0, 0)
TodayDate(day) == DateAt(day, 0)

\* weekFromNow = new Date(today); weekFromNow.setDate(today.getDate() + 7)
WeekFromNow(day) ==
    DateAt(MakeDay(YearFromDay(day), MonthFromDay(day), DateFromDay(day) + 7), 0)

\* nextMonth = new Date(today); nextMonth.setMonth(today.getMonth() + 1)
NextMonthDate(day) ==
    DateAt(MakeDay(YearFromDay(day), MonthFromDay(day) + 1, DateFromDay(day)), 0)

-----------------------------------------------------------------------------
(* The page: event cards and the options of the three select controls *)

TypeOptions == {"all", "workshop", "children"}
DateOptions == {"all", "upcoming", "this-week", "this-month", "next-month"}
SortOptions == {"date-asc", "date-desc", "title", "type"}

\* the year most of the modelled events fall in
EventYear == FirstYear + 1

\* A card: its data-event-type and data-event-date attributes, the text of
\* its [data-event-title] element, the data-event-id of its export button and
\* the datetime attribute of its time element, which repeats the date unless
\* said otherwise. The cards have no [data-event-description] and no
\* [data-event-location] element.
Card(type, date, title, id) ==
    [typeAttr |-> type, dateAttr |-> date, titleText |-> title, idAttr |-> id,
     datetimeAttr |-> date, descriptionText |-> "", locationText |-> ""]

\* The event cards a page is assembled from, in an order that is sorted by
\* none of the sort keys. An attribute that the markup leaves out reads as ""
\* (getAttribute gives null, which || replaces).
Catalog ==
    << Card("children", <<EventYear, 6, 12, 10>>, "Story Time", "e1"),
       Card("workshop", <<EventYear, 6, 5, 10>>,  "Knitting",   "e2"),
       Card("children", <<>>,                     "Book Club",  ""),
       Card("workshop", <<EventYear, 6, 12, 10>>, "story time", "e4"),
       [Card("",        <<EventYear, 7, 20, 10>>, "Knitting",   "")
            EXCEPT !.datetimeAttr = <<EventYear, 13, 45, 0>>] >>

\* the cards of the catalog at the positions in S, in catalog order
RECURSIVE Pick(_, _)
Pick(S, i) ==
    IF i > Len(Catalog) THEN <<>>
    ELSE (IF i \in S THEN <<Catalog[i]>> ELSE <<>>) \o Pick(S, i + 1)

Reverse(s) == [i \in DOMAIN s |-> s[Len(s) + 1 - i]]

\* the pages: up to MaxEvents cards of the catalog, in catalog order or in the
\* opposite order
Pages ==
    LET selections == { S \in SUBSET (DOMAIN Catalog) :
                            Cardinality(S) \in 1..MaxEvents }
    IN  { Pick(S, 1) : S \in selections }
            \cup { Reverse(Pick(S, 1)) : S \in selections }

\* the local dates on which the page is opened
Todays == { MakeDay(EventYear, 5, 10) }

-----------------------------------------------------------------------------
(* initCalendar, calendar.js:12-35 *)

EventRecord(card) ==
    [type  |-> IF card.typeAttr = "" THEN "all" ELSE card.typeAttr,
     date  |-> card.dateAttr,
     title |-> card.titleText,
     id    |-> card.idAttr]

InitCalendar(page) == [i \in DOMAIN page |-> EventRecord(page[i])]

-----------------------------------------------------------------------------
(* applyFilters, calendar.js:72-136 *)

\* mutant: "this-month" without the `eventDate >= today` of calendar.js:108
DateVisible_WholeMonth(selectedDate, eventDate, day) ==
    CASE selectedDate = "upcoming" ->
            DateGe(eventDate, TodayDate(day))
      [] selectedDate = "this-week" ->
            DateGe(eventDate, TodayDate(day)) /\ DateLe(eventDate, WeekFromNow(day))
      [] selectedDate = "this-month" ->
            /\ SameMonth(eventDate, TodayDate(day))
            /\ SameFullYear(eventDate, TodayDate(day))
      [] selectedDate = "next-month" ->
            /\ SameMonth(eventDate, NextMonthDate(day))
            /\ SameFullYear(eventDate, NextMonthDate(day))
      [] OTHER -> TRUE

\* the switch on selectedDate, calendar.js:95-117; a value without a case
\* leaves isVisible true
DateVisible(selectedDate, eventDate, day) ==
    CASE selectedDate = "upcoming" ->
            DateGe(eventDate, TodayDate(day))
      [] selectedDate = "this-week" ->
            DateGe(eventDate, TodayDate(day)) /\ DateLe(eventDate, WeekFromNow(day))
      [] selectedDate = "this-month" ->
            /\ SameMonth(eventDate, TodayDate(day))
            /\ SameFullYear(eventDate, TodayDate(day))
            /\ DateGe(eventDate, TodayDate(day))
      [] selectedDate = "next-month" ->
            /\ SameMonth(eventDate, NextMonthDate(day))
            /\ SameFullYear(eventDate, NextMonthDate(day))
      [] OTHER -> TRUE

\* "Filter by type", calendar.js:85-87
TypeVisible(selectedType, eventType) ==
    ~(selectedType # "all" /\ eventType # selectedType)

\* mutant: the date filter forgets the `&& isVisible` of calendar.js:90 and
\* overwrites the result of the type filter
IsVisible_DateOverwritesType(event, selectedType, selectedDate, day) ==
    IF selectedDate # "all"
    THEN DateVisible(selectedDate, ParseDate(event.date), day)
    ELSE TypeVisible(selectedType, event.type)

\* the value of isVisible at calendar.js:120
IsVisible(event, selectedType, selectedDate, day) ==
    IF selectedDate # "all" /\ TypeVisible(selectedType, event.type)
    THEN DateVisible(selectedDate, ParseDate(event.date), day)
    ELSE TypeVisible(selectedType, event.type)

\* mutant: a visible record keeps its style, so a record once hidden stays
\* hidden
ShowOrHideDisplay_NeverShowsAgain(old, isVisible) ==
    IF isVisible THEN old ELSE "none"

\* "Show or hide event", calendar.js:121-128; old is the value overwritten
ShowOrHideDisplay(old, isVisible) == IF isVisible THEN "" ELSE "none"
ShowOrHideAttr(old, isVisible) == IF isVisible THEN "false" ELSE "true"

\* visibleCount at calendar.js:132
VisibleCount(events, selectedType, selectedDate, day) ==
    Cardinality({ i \in DOMAIN events :
                    IsVisible(events[i], selectedType, selectedDate, day) })

\* updateNoEventsMessage, calendar.js:439-448
UpdateNoEventsMessage(visibleCount) ==
    IF visibleCount = 0 THEN "block" ELSE "none"

\* the template literal of calendar.js:135
\* mutant: the plural for every count
ShowingMessage_AlwaysPlural(visibleCount) ==
    "Showing " \o ToString(visibleCount) \o " events"

ShowingMessage(visibleCount) ==
    "Showing " \o ToString(visibleCount) \o " event"
        \o (IF visibleCount # 1 THEN "s" ELSE "")

\* the template literal of calendar.js:161
ShowingAllMessage(n) == "Showing all " \o ToString(n) \o " events"

ApplyFilters(selectedType, selectedDate) ==
    LET isVisible == [i \in DOMAIN allEvents |->
                        IsVisible(allEvents[i], selectedType, selectedDate, today)]
        visibleCount == VisibleCount(allEvents, selectedType, selectedDate, today)
    IN  /\ display' = [i \in DOMAIN allEvents |->
                          ShowOrHideDisplay(display[i], isVisible[i])]
        /\ dataHidden' = [i \in DOMAIN allEvents |->
                          ShowOrHideAttr(dataHidden[i], isVisible[i])]
        /\ noEventsDisplay' = UpdateNoEventsMessage(visibleCount)
        /\ statusMessage' = ShowingMessage(visibleCount)

-----------------------------------------------------------------------------
(* applySorting, calendar.js:182-206 *)

\* a Number: [nan |-> TRUE] is NaN
Num(v) == [nan |-> FALSE, v |-> v]
NaN == [nan |-> TRUE, v |-> 0]

\* new Date(a) - new Date(b): the difference of the time values
DateMinus(a, b) == IF a.nan \/ b.nan THEN NaN ELSE Num(a.t - b.t)

\* String.prototype.localeCompare over the strings of the modelled pages: the
\* strings in collation order (case differences are compared last, lower
\* case first)
CollationOrder ==
    <<"", "all", "Book Club", "children", "Knitting", "story time",
      "Story Time", "workshop">>

CollationRank(s) == CHOOSE i \in DOMAIN CollationOrder : CollationOrder[i] = s

LocaleCompare(a, b) ==
    IF CollationRank(a) < CollationRank(b) THEN Num(-1)
    ELSE IF CollationRank(a) > CollationRank(b) THEN Num(1)
    ELSE Num(0)

\* mutant: the date-desc case is a copy of the date-asc case
Comparator_DescCopiesAsc(a, b, sortType) ==
    CASE sortType = "date-asc"  -> DateMinus(ParseDate(a.date), ParseDate(b.date))
      [] sortType = "date-desc" -> DateMinus(ParseDate(a.date), ParseDate(b.date))
      [] sortType = "title"     -> LocaleCompare(a.title, b.title)
      [] sortType = "type"      -> LocaleCompare(a.type, b.type)
      [] OTHER                  -> Num(0)

\* the comparator of calendar.js:187-200
Comparator(a, b, sortType) ==
    CASE sortType = "date-asc"  -> DateMinus(ParseDate(a.date), ParseDate(b.date))
      [] sortType = "date-desc" -> DateMinus(ParseDate(b.date), ParseDate(a.date))
      [] sortType = "title"     -> LocaleCompare(a.title, b.title)
      [] sortType = "type"      -> LocaleCompare(a.type, b.type)
      [] OTHER                  -> Num(0)

\* Array.prototype.sort: a stable sort by the comparator's sign (here by
\* insertion), as ECMAScript requires of a consistent comparator
RECURSIVE InsertSorted(_, _, _, _)
InsertSorted(sorted, i, events, sortType) ==
    IF sorted = <<>> THEN <<i>>
    ELSE IF Comparator(events[sorted[Len(sorted)]], events[i], sortType).v <= 0
         THEN Append(sorted, i)
         ELSE Append(InsertSorted(SubSeq(sorted, 1, Len(sorted) - 1),
                                  i, events, sortType),
                     sorted[Len(sorted)])

RECURSIVE StableSortFrom(_, _, _, _)
StableSortFrom(sorted, i, events, sortType) ==
    IF i > Len(events) THEN sorted
    ELSE StableSortFrom(InsertSorted(sorted, i, events, sortType),
                        i + 1, events, sortType)

StableSort(events, sortType) == StableSortFrom(<<>>, 1, events, sortType)

Orderings(n) ==
    { p \in [1..n -> 1..n] : \A i, j \in 1..n : p[i] = p[j] => i = j }

\* ECMAScript's consistent comparator never returns NaN
ConsistentComparator(events, sortType) ==
    \A i, j \in DOMAIN events :
        i # j => ~Comparator(events[i], events[j], sortType).nan

\* The orders [...allEvents].sort(comparator) can give. ECMAScript leaves the
\* order to the implementation when the comparator is not consistent.
SortOutcomes(events, sortType) ==
    IF ConsistentComparator(events, sortType)
    THEN {StableSort(events, sortType)}
    ELSE Orderings(Len(events))

\* container.appendChild(element): an element already in the container moves
\* to its end
\* mutant: an element that is already a child stays where it is
AppendChild_KeepsPlace(container, e) ==
    IF \E p \in DOMAIN container : container[p] = e
    THEN container
    ELSE container \o <<e>>

AppendChild(container, e) ==
    SelectSeq(container, LAMBDA x : x # e) \o <<e>>

\* sortedEvents.forEach((event) => container.appendChild(event.element))
RECURSIVE AppendAll(_, _)
AppendAll(container, sortedEvents) ==
    IF sortedEvents = <<>> THEN container
    ELSE AppendAll(AppendChild(container, Head(sortedEvents)), Tail(sortedEvents))

ApplySorting(sortType) ==
    \E sortedEvents \in SortOutcomes(allEvents, sortType) :
        children' = AppendAll(children, sortedEvents)

-----------------------------------------------------------------------------
(* clearFilters, calendar.js:141-162 *)

\* mutant: the sort control is not reset
ClearFilters_KeepsSortControl ==
    /\ typeFilter' = "all"
    /\ dateFilter' = "upcoming"
    /\ sortControl' = sortControl
    /\ display' = [i \in DOMAIN allEvents |-> ""]
    /\ dataHidden' = [i \in DOMAIN allEvents |-> "false"]
    /\ \E sortedEvents \in SortOutcomes(allEvents, "date-asc") :
          children' = AppendAll(children, sortedEvents)
    /\ noEventsDisplay' = UpdateNoEventsMessage(Len(allEvents))
    /\ statusMessage' = "Showing all " \o ToString(Len(allEvents)) \o " events"

ClearFilters ==
    /\ typeFilter' = "all"
    /\ dateFilter' = "upcoming"
    /\ sortControl' = "date-asc"
    /\ display' = [i \in DOMAIN allEvents |-> ""]
    /\ dataHidden' = [i \in DOMAIN allEvents |-> "false"]
    /\ ApplySorting("date-asc")
    /\ noEventsDisplay' = UpdateNoEventsMessage(Len(allEvents))
    /\ statusMessage' = ShowingAllMessage(Len(allEvents))

-----------------------------------------------------------------------------
(* Exports, calendar.js:211-419 *)

\* no link.click()
NoFile == [name |-> "", content |-> <<>>]

\* a listener that downloads nothing, opens no window and returns
NoExport == download' = NoFile /\ openedUrls' = <<>> /\ uncaught' = ""

\* let startDate, endDate; left unassigned
Undefined == [undefined |-> TRUE]

\* extractEventData's catch branch
Null == [null |-> TRUE]

\* new Date(date.getTime() + ms): NaN + ms is NaN
AddHours(date, hours) ==
    IF date.nan THEN InvalidDate ELSE [nan |-> FALSE, t |-> date.t + hours]

\* extractEventData, calendar.js:345-377; the card has one time element, so
\* timeEl's datetime, or else dateEl's, is the card's datetime attribute; no
\* statement of the try block throws for an element
ExtractEventData(card) ==
    LET startDateTime == card.datetimeAttr
        startDate == IF startDateTime # <<>> THEN ParseDate(startDateTime)
                     ELSE Undefined
        endDate == IF startDateTime # <<>> THEN AddHours(startDate, 1)
                   ELSE Undefined
    IN  [title       |-> IF card.titleText # "" THEN card.titleText
                         ELSE "Library Event",
         description |-> card.descriptionText,
         location    |-> IF card.locationText # "" THEN card.locationText
                         ELSE "Union Beach Memorial Library",
         startDate   |-> startDate,
         endDate     |-> endDate]

\* what date.toISOString() throws: reading a property of undefined is a
\* TypeError, an Invalid Date's toISOString a RangeError; "" if it returns
FormatDateThrows(date) ==
    IF date = Undefined THEN "TypeError"
    ELSE IF date.nan THEN "RangeError"
    ELSE ""

Pad2(n) == IF n < 10 THEN "0" \o ToString(n) ELSE ToString(n)

\* date.toISOString().replace(/[-:]/g, '').split('.')[0] + 'Z'; the page's
\* time zone is UTC, so the UTC fields are the local ones
FormatDate(date) ==
    ToString(YearFromDay(DayOf(date))) \o Pad2(MonthFromDay(DayOf(date)) + 1)
        \o Pad2(DateFromDay(DayOf(date))) \o "T" \o Pad2(date.t % 24) \o "0000Z"

\* encodeURIComponent on the texts of the page
EncodeURIComponent(s) ==
    CASE s = "Story Time"    -> "Story%20Time"
      [] s = "story time"    -> "story%20time"
      [] s = "Book Club"     -> "Book%20Club"
      [] s = "Library Event" -> "Library%20Event"
      [] s = "Union Beach Memorial Library"
                             -> "Union%20Beach%20Memorial%20Library"
      [] OTHER               -> s

\* title.replace(/[^a-z0-9]/gi, '-').toLowerCase() on the titles of the page
FileNameOfTitle(title) ==
    CASE title = "Story Time"    -> "story-time"
      [] title = "story time"    -> "story-time"
      [] title = "Book Club"     -> "book-club"
      [] title = "Knitting"      -> "knitting"
      [] title = "Library Event" -> "library-event"
      [] OTHER                   -> title

\* createGoogleCalendarUrl, calendar.js:382-394
CreateGoogleCalendarUrl(eventData) ==
    LET error == IF FormatDateThrows(eventData.startDate) # ""
                 THEN FormatDateThrows(eventData.startDate)
                 ELSE FormatDateThrows(eventData.endDate)
    IN  IF error # "" THEN [error |-> error, url |-> ""]
        ELSE [error |-> "",
              url   |-> "https://calendar.google.com/calendar/render?action=TEMPLATE"
                        \o "&text=" \o EncodeURIComponent(eventData.title)
                        \o "&dates=" \o FormatDate(eventData.startDate)
                        \o "/" \o FormatDate(eventData.endDate)
                        \o "&details=" \o EncodeURIComponent(eventData.description)
                        \o "&location=" \o EncodeURIComponent(eventData.location)]

\* Math.random().toString(36).substring(7): the digits of the random number
\* from the sixth on, none when the number has at most five
RandomSuffixes == {"", "k3x9q"}

\* the Date.now() and Math.random() results of n successive evaluations of
\* calendar.js:404 in one listener, Date.now() counted in milliseconds from
\* the first of them: the clock does not go back and two successive calls
\* are at most a millisecond apart
RECURSIVE UidSourcesFrom(_, _)
UidSourcesFrom(n, ms) ==
    IF n = 0 THEN { <<>> }
    ELSE UNION { { <<[ms |-> m, suffix |-> r]>> \o rest :
                        rest \in UidSourcesFrom(n - 1, m) } :
                    m \in {ms, ms + 1}, r \in RandomSuffixes }

UidSourcesOf(n) ==
    { s \in UidSourcesFrom(n, 0) : n > 0 => s[1].ms = 0 }

Uid(source) ==
    ToString(source.ms) \o "-" \o source.suffix \o "@unionbeachlibrary.org"

\* createICalEvent, calendar.js:399-419; DTSTAMP is formatDate(new Date()),
\* the time of day of which is not modelled: it reads midnight
CreateICalEvent(eventData, source, day) ==
    LET error == IF FormatDateThrows(eventData.startDate) # ""
                 THEN FormatDateThrows(eventData.startDate)
                 ELSE FormatDateThrows(eventData.endDate)
    IN  IF error # "" THEN [error |-> error, lines |-> <<>>]
        ELSE [error |-> "",
              lines |-> << <<"BEGIN", "VEVENT">>,
                           <<"UID", Uid(source)>>,
                           <<"DTSTAMP", FormatDate(TodayDate(day))>>,
                           <<"DTSTART", FormatDate(eventData.startDate)>>,
                           <<"DTEND", FormatDate(eventData.endDate)>>,
                           <<"SUMMARY", eventData.title>>,
                           <<"DESCRIPTION", eventData.description>>,
                           <<"LOCATION", eventData.location>>,
                           <<"STATUS", "CONFIRMED">>,
                           <<"END", "VEVENT">> >>]

CalendarHead ==
    << <<"BEGIN", "VCALENDAR">>,
       <<"VERSION", "2.0">>,
       <<"PRODID", "-//Union Beach Memorial Library//Calendar//EN">>,
       <<"CALSCALE", "GREGORIAN">> >>

CalendarTail == << <<"END", "VCALENDAR">> >>

\* allEvents.filter(event => event.element.getAttribute('data-hidden') !==
\* 'true'), as the indices of the records kept
VisibleEvents ==
    SelectSeq([i \in DOMAIN allEvents |-> i], LAMBDA i : dataHidden[i] # "true")

\* the forEach of calendar.js:274-279 from the p-th visible event on: the
\* text appended, or the exception that ends it
RECURSIVE AppendEvents(_, _, _)
AppendEvents(visibleEvents, sources, p) ==
    IF p > Len(visibleEvents) THEN [error |-> "", lines |-> <<>>]
    ELSE LET eventData == ExtractEventData(cards[visibleEvents[p]])
             event == IF eventData = Null THEN [error |-> "", lines |-> <<>>]
                      ELSE CreateICalEvent(eventData, sources[p], today)
             rest == AppendEvents(visibleEvents, sources, p + 1)
         IN  IF event.error # "" THEN event
             ELSE IF rest.error # "" THEN rest
             ELSE [error |-> "", lines |-> event.lines \o rest.lines]

NoEventsToExport == "No events to export. Please adjust filters."

ExportedMessage(n) ==
    "Exported " \o ToString(n) \o " event" \o (IF n # 1 THEN "s" ELSE "")
        \o " to iCal"

\* an exception leaves the listener: nothing after the throwing call runs
Throw(error) ==
    /\ uncaught' = error
    /\ download' = NoFile
    /\ openedUrls' = <<>>
    /\ UNCHANGED statusMessage

\* mutant: the export is not refused when no event is visible
ExportToICal_ExportsNothing ==
    LET visibleEvents == VisibleEvents
    IN  \E sources \in UidSourcesOf(Len(visibleEvents)) :
            LET events == AppendEvents(visibleEvents, sources, 1)
            IN  IF events.error # "" THEN Throw(events.error)
                ELSE /\ download' =
                            [name    |-> "union-beach-library-events.ics",
                             content |-> CalendarHead \o events.lines
                                            \o CalendarTail]
                     /\ statusMessage' = ExportedMessage(Len(visibleEvents))
                     /\ openedUrls' = <<>>
                     /\ uncaught' = ""

\* exportToICal, calendar.js:259-293
ExportToICal ==
    LET visibleEvents == VisibleEvents
    IN  IF Len(visibleEvents) = 0
        THEN /\ statusMessage' = NoEventsToExport
             /\ NoExport
        ELSE \E sources \in UidSourcesOf(Len(visibleEvents)) :
                LET events == AppendEvents(visibleEvents, sources, 1)
                IN  IF events.error # "" THEN Throw(events.error)
                    ELSE /\ download' =
                                [name    |-> "union-beach-library-events.ics",
                                 content |-> CalendarHead \o events.lines
                                                \o CalendarTail]
                         /\ statusMessage' = ExportedMessage(Len(visibleEvents))
                         /\ openedUrls' = <<>>
                         /\ uncaught' = ""

\* exportToGoogleCalendar, calendar.js:233-254
ExportToGoogleCalendar ==
    LET visibleEvents == VisibleEvents
    IN  IF Len(visibleEvents) = 0
        THEN /\ statusMessage' = NoEventsToExport
             /\ NoExport
        ELSE LET firstEvent == visibleEvents[1]
                 eventData == ExtractEventData(cards[firstEvent])
                 google == CreateGoogleCalendarUrl(eventData)
             IN  IF eventData = Null
                 THEN NoExport /\ UNCHANGED statusMessage
                 ELSE IF google.error # "" THEN Throw(google.error)
                 ELSE /\ openedUrls' = <<google.url>>
                      /\ statusMessage' = "Opening Google Calendar..."
                      /\ download' = NoFile
                      /\ uncaught' = ""

\* exportSingleEvent, calendar.js:314-340
ExportSingleEvent(i) ==
    LET eventData == ExtractEventData(cards[i])
    IN  IF eventData = Null
        THEN /\ statusMessage' = "Unable to export event"
             /\ NoExport
        ELSE \E sources \in UidSourcesOf(1) :
                LET event == CreateICalEvent(eventData, sources[1], today)
                IN  IF event.error # "" THEN Throw(event.error)
                    ELSE /\ download' =
                                [name    |-> FileNameOfTitle(eventData.title)
                                                \o ".ics",
                                 content |-> CalendarHead \o event.lines
                                                \o CalendarTail]
                         /\ openedUrls' = <<>>
                         /\ uncaught' = ""
                         /\ UNCHANGED statusMessage

-----------------------------------------------------------------------------
(* Feedback, calendar.js:424-434 and 475-489 *)

\* a call of updateStatusMessage or of announceToScreenReader
UpdateStatusCall(message) == <<"updateStatusMessage", message>>
AnnounceCall(message) == <<"announceToScreenReader", message>>

\* mutant: the element is an assertive live region
Announcement_Assertive(message) ==
    [role |-> "alert", ariaLive |-> "assertive", className |-> "visually-hidden",
     textContent |-> message]

\* the element announceToScreenReader creates, calendar.js:476-480
Announcement(message) ==
    [role |-> "status", ariaLive |-> "polite", className |-> "visually-hidden",
     textContent |-> message]

\* document.body.appendChild(announcement) for the announceToScreenReader
\* calls among `calls`, in order
RECURSIVE AnnounceToScreenReader(_, _)
AnnounceToScreenReader(body, calls) ==
    IF calls = <<>> THEN body
    ELSE AnnounceToScreenReader(
            IF Head(calls)[1] = "announceToScreenReader"
            THEN Append(body, Announcement(Head(calls)[2]))
            ELSE body,
            Tail(calls))

\* the number of setTimeout calls of updateStatusMessage among `calls`
StatusTimeoutsOf(calls) ==
    Len(SelectSeq(calls, LAMBDA call : call[1] = "updateStatusMessage"))

LoadedMessage(n) == "Calendar loaded with " \o ToString(n) \o " events"

-----------------------------------------------------------------------------
(* The mobile menu and the form validation of main.js *)

\* the menu as the markup leaves it: closed, the toggle with aria-expanded
\* "false" or without the attribute ("null")
ClosedMenu(ariaExpanded) ==
    [ariaExpanded |-> ariaExpanded, active |-> FALSE, focused |-> FALSE]

\* a page without form[data-validate]
NoForm == [fields |-> <<>>, isValid |-> TRUE, defaultPrevented |-> FALSE]

\* a page without .gallery-item
NoGallery ==
    [items |-> <<>>, modals |-> <<>>, overflow |-> "", focus |-> <<"page">>]

-----------------------------------------------------------------------------
(* The page session *)

\* the state of the page when initCalendar has run on `page`, opened on the
\* local date `day`; the controls show the values clearFilters resets them to
Loaded(page, day) ==
    /\ cards = page
    /\ allEvents = InitCalendar(page)
    /\ today = day
    /\ typeFilter = "all"
    /\ dateFilter = "upcoming"
    /\ sortControl = "date-asc"
    /\ display = [i \in DOMAIN page |-> ""]
    /\ dataHidden = [i \in DOMAIN page |-> "null"]
    /\ children = [i \in DOMAIN page |-> i]
    /\ noEventsDisplay = ""
    /\ statusMessage = ""
    /\ lastOp = "initCalendar"
    /\ download = NoFile
    /\ openedUrls = <<>>
    /\ uncaught = ""
    /\ feedback = <<AnnounceCall(LoadedMessage(Len(page)))>>
    /\ announcements = <<Announcement(LoadedMessage(Len(page)))>>
    /\ statusTimers = 0
    /\ menu = ClosedMenu("false")
    /\ form = NoForm
    /\ gallery = NoGallery

Init == \E page \in Pages, day \in Todays : Loaded(page, day)

\* the change listener of the type filter, calendar.js:46-49
TypeFilterChange ==
    \E value \in TypeOptions \ {typeFilter} :
        /\ typeFilter' = value
        /\ ApplyFilters(value, dateFilter)
        /\ lastOp' = "applyFilters"
        /\ UNCHANGED <<cards, allEvents, today, dateFilter, sortControl, children>>
        /\ NoExport
        /\ feedback' = <<UpdateStatusCall(statusMessage'),
                         AnnounceCall("Filters applied")>>

\* the change listener of the date filter, calendar.js:53-56
DateFilterChange ==
    \E value \in DateOptions \ {dateFilter} :
        /\ dateFilter' = value
        /\ ApplyFilters(typeFilter, value)
        /\ lastOp' = "applyFilters"
        /\ UNCHANGED <<cards, allEvents, today, typeFilter, sortControl, children>>
        /\ NoExport
        /\ feedback' = <<UpdateStatusCall(statusMessage'),
                         AnnounceCall("Filters applied")>>

\* the click listener of a clear-filters button, calendar.js:61-64
ClearFiltersClick ==
    /\ ClearFilters
    /\ lastOp' = "clearFilters"
    /\ UNCHANGED <<cards, allEvents, today>>
    /\ NoExport
    /\ feedback' = <<UpdateStatusCall(statusMessage'),
                     AnnounceCall("Filters cleared")>>

\* mutant: re-attaching an element also shows it
SortChange_ShowsEveryRecord ==
    \E value \in SortOptions \ {sortControl} :
        /\ sortControl' = value
        /\ \E sortedEvents \in SortOutcomes(allEvents, value) :
              children' = AppendAll(children, sortedEvents)
        /\ display' = [i \in DOMAIN allEvents |-> ""]
        /\ dataHidden' = [i \in DOMAIN allEvents |-> "false"]
        /\ lastOp' = "applySorting"
        /\ UNCHANGED <<cards, allEvents, today, typeFilter, dateFilter,
                       noEventsDisplay, statusMessage>>
        /\ NoExport
        /\ feedback' = <<AnnounceCall("Events sorted by " \o value)>>

\* mutant: allEvents.sort(...) in place of [...allEvents].sort(...)
SortChange_SortsInPlace ==
    \E value \in SortOptions \ {sortControl} :
        /\ sortControl' = value
        /\ \E sortedEvents \in SortOutcomes(allEvents, value) :
              /\ allEvents' = [k \in DOMAIN allEvents |-> allEvents[sortedEvents[k]]]
              /\ children' = AppendAll(children, sortedEvents)
        /\ lastOp' = "applySorting"
        /\ UNCHANGED <<cards, today, typeFilter, dateFilter, display,
                       dataHidden, noEventsDisplay, statusMessage>>
        /\ NoExport
        /\ feedback' = <<AnnounceCall("Events sorted by " \o value)>>

\* the change listener of the sort control, calendar.js:171-175
SortChange ==
    \E value \in SortOptions \ {sortControl} :
        /\ sortControl' = value
        /\ ApplySorting(value)
        /\ lastOp' = "applySorting"
        /\ UNCHANGED <<cards, allEvents, today, typeFilter, dateFilter, display,
                       dataHidden, noEventsDisplay, statusMessage>>
        /\ NoExport
        /\ feedback' = <<AnnounceCall("Events sorted by " \o value)>>

\* a session that does not follow how long the feedback stays: no timeout
\* runs in it, and the feedback of the listeners is left to `feedback`
Unfollowed ==
    /\ UNCHANGED <<announcements, statusTimers>>
    /\ UNCHANGED <<menu, form, gallery>>

Next ==
    \/ TypeFilterChange /\ Unfollowed
    \/ DateFilterChange /\ Unfollowed
    \/ ClearFiltersClick /\ Unfollowed
    \/ SortChange /\ Unfollowed

Spec == Init /\ [][Next]_vars

-----------------------------------------------------------------------------
(* The page session with its export buttons *)

\* the click listener of the [data-export="ical"] button, calendar.js:223-226
ExportICalClick ==
    /\ ExportToICal
    /\ lastOp' = "exportToICal"
    /\ feedback' = IF uncaught' # "" THEN <<>>
                   ELSE <<UpdateStatusCall(statusMessage'),
                          AnnounceCall("Downloading iCal file")>>
    /\ UNCHANGED <<cards, allEvents, today, typeFilter, dateFilter, sortControl,
                   display, dataHidden, children, noEventsDisplay>>

\* the click listener of the [data-export="google"] button, calendar.js:216-219
ExportGoogleClick ==
    /\ ExportToGoogleCalendar
    /\ lastOp' = "exportToGoogleCalendar"
    /\ feedback' =
          IF uncaught' # "" THEN <<>>
          ELSE IF /\ VisibleEvents # <<>>
                  /\ ExtractEventData(cards[VisibleEvents[1]]) = Null
               THEN <<AnnounceCall("Exporting to Google Calendar")>>
          ELSE <<UpdateStatusCall(statusMessage'),
                 AnnounceCall("Exporting to Google Calendar")>>
    /\ UNCHANGED <<cards, allEvents, today, typeFilter, dateFilter, sortControl,
                   display, dataHidden, children, noEventsDisplay>>

\* the click listener of a card's [data-event-export] button,
\* calendar.js:302-307; the button of a card that is not displayed cannot be
\* clicked
ExportEventClick ==
    \E i \in DOMAIN allEvents :
        /\ display[i] # "none"
        /\ ExportSingleEvent(i)
        /\ lastOp' = "exportSingleEvent"
        /\ feedback' =
              IF uncaught' # "" THEN <<>>
              ELSE IF ExtractEventData(cards[i]) = Null
                   THEN <<UpdateStatusCall(statusMessage')>>
              ELSE <<AnnounceCall("Exported " \o ExtractEventData(cards[i]).title
                                    \o " to calendar")>>
        /\ UNCHANGED <<cards, allEvents, today, typeFilter, dateFilter,
                       sortControl, display, dataHidden, children,
                       noEventsDisplay>>

NextExport ==
    \/ TypeFilterChange /\ Unfollowed
    \/ DateFilterChange /\ Unfollowed
    \/ ClearFiltersClick /\ Unfollowed
    \/ SortChange /\ Unfollowed
    \/ ExportICalClick /\ Unfollowed
    \/ ExportGoogleClick /\ Unfollowed
    \/ ExportEventClick /\ Unfollowed

\* the pages with export buttons: one or two cards of the catalog, or all the
\* cards whose datetime attribute parses, in catalog order
ExportPages ==
    { Pick({i, j}, 1) : i, j \in DOMAIN Catalog }
        \cup { SelectSeq(Catalog, LAMBDA card : ~ParseDate(card.datetimeAttr).nan) }

InitExport == \E page \in ExportPages, day \in Todays : Loaded(page, day)

SpecExport == InitExport /\ [][NextExport]_vars

-----------------------------------------------------------------------------
(* The page session with the timeouts of its feedback *)

\* the listener's announcements are appended to the body and the timeouts of
\* its status messages are started; the user acts while fewer than MaxPending
\* timeouts are pending
Followed ==
    /\ Len(announcements) + statusTimers < MaxPending
    /\ announcements' = AnnounceToScreenReader(announcements, feedback')
    /\ statusTimers' = statusTimers + StatusTimeoutsOf(feedback')
    /\ UNCHANGED <<menu, form, gallery>>

\* a callback that is no listener: it calls neither updateStatusMessage nor
\* announceToScreenReader and touches no event element
TimeoutOnly ==
    /\ feedback' = <<>>
    /\ NoExport
    /\ UNCHANGED <<cards, allEvents, today, typeFilter, dateFilter, sortControl,
                   display, dataHidden, children, noEventsDisplay>>
    /\ UNCHANGED <<menu, form, gallery>>

\* the timeout of announceToScreenReader, calendar.js:484-488; the timeouts
\* have the same delay, so the oldest element's runs first. The delays are not
\* counted: a timeout of one kind runs before or after a pending one of the
\* other kind
AnnouncementTimeout ==
    /\ announcements # <<>>
    /\ announcements' = Tail(announcements)
    /\ lastOp' = "announcementTimeout"
    /\ TimeoutOnly
    /\ UNCHANGED <<statusMessage, statusTimers>>

\* mutant: the timeout leaves the text
StatusTimeout_KeepsText ==
    /\ statusTimers > 0
    /\ statusTimers' = statusTimers - 1
    /\ lastOp' = "statusTimeout"
    /\ TimeoutOnly
    /\ UNCHANGED <<statusMessage, announcements>>

\* the timeout of updateStatusMessage, calendar.js:430-432
StatusTimeout ==
    /\ statusTimers > 0
    /\ statusMessage' = ""
    /\ statusTimers' = statusTimers - 1
    /\ lastOp' = "statusTimeout"
    /\ TimeoutOnly
    /\ UNCHANGED announcements

\* a listener of the page runs
UserAction ==
    \/ TypeFilterChange /\ Followed
    \/ DateFilterChange /\ Followed
    \/ ClearFiltersClick /\ Followed
    \/ SortChange /\ Followed
    \/ ExportICalClick /\ Followed
    \/ ExportGoogleClick /\ Followed
    \/ ExportEventClick /\ Followed

NextFeedback ==
    \/ UserAction
    \/ AnnouncementTimeout
    \/ StatusTimeout

\* the pages of one card: a card whose exports succeed and the card whose
\* datetime attribute does not parse
FeedbackPages == { <<Catalog[1]>>, <<Catalog[5]>> }

InitFeedback == \E page \in FeedbackPages, day \in Todays : Loaded(page, day)

\* the browser runs a timeout that is due
SpecFeedback ==
    /\ InitFeedback
    /\ [][NextFeedback]_vars
    /\ WF_vars(AnnouncementTimeout)
    /\ WF_vars(StatusTimeout)

-----------------------------------------------------------------------------
(* Sessions over the calendar: one card, opened on the days around the     *)
(* ends of months, its date at the offsets that separate the date filters  *)

\* the ISO local date-time string of an hour of a day
DateString(day, hour) ==
    <<YearFromDay(day), MonthFromDay(day) + 1, DateFromDay(day), hour>>

TodayGrid ==
    { MakeDay(EventYear, m, d) : m \in {0, 5, 11}, d \in {1, 10, 28} }
        \cup { MakeDay(EventYear, m, DaysInMonth(EventYear, m) - k) :
                    m \in {0, 5, 11}, k \in 0..2 }

DatesAround(day) ==
    { DateString(day + k, h) : k \in {-1, 0, 7, 8, 25, 31, 59, 365},
                               h \in {0, 10} }
        \cup { <<>>, <<EventYear, 13, 45, 0>> }

InitDates ==
    \E day \in TodayGrid : \E date \in DatesAround(day) :
        Loaded(<<Card("workshop", date, "Knitting", "e1")>>, day)

SpecDates == InitDates /\ [][Next]_vars

-----------------------------------------------------------------------------
(* A page with the mobile menu and a validated form, main.js *)

\* a page without event elements, on which calendar.js does not run
NoCalendar ==
    /\ cards = <<>>
    /\ allEvents = <<>>
    /\ today \in Todays
    /\ typeFilter = "all"
    /\ dateFilter = "upcoming"
    /\ sortControl = "date-asc"
    /\ display = <<>>
    /\ dataHidden = <<>>
    /\ children = <<>>
    /\ noEventsDisplay = ""
    /\ statusMessage = ""
    /\ download = NoFile
    /\ openedUrls = <<>>
    /\ uncaught = ""
    /\ statusTimers = 0

\* menuToggle.setAttribute('aria-expanded', !isExpanded): the boolean as a
\* string
BooleanString(b) == IF b THEN "true" ELSE "false"

\* the click listener of the document, part_000:28-35, for a click outside
\* the toggle and the navigation
CloseOnOutsideClick(m) ==
    IF m.active
    THEN [m EXCEPT !.ariaExpanded = "false", !.active = FALSE]
    ELSE m

\* mutant: the click turns the class only
MenuToggleClick_ClassOnly ==
    /\ menu' = [menu EXCEPT !.active = ~@]
    /\ feedback' = <<AnnounceCall(IF menu.ariaExpanded # "true"
                                  THEN "Menu opened" ELSE "Menu closed")>>
    /\ lastOp' = "menuToggleClick"
    /\ UNCHANGED <<form, gallery, announcements>>
    /\ UNCHANGED calendarVars

\* the click listener of the toggle, part_000:13-25; the click is inside the
\* toggle, so the listener of the document leaves the menu. Whether a click
\* focuses a button depends on the browser
MenuToggleClick ==
    LET isExpanded == menu.ariaExpanded = "true"
    IN  /\ \E focused \in {menu.focused, TRUE} :
              menu' = [ariaExpanded |-> BooleanString(~isExpanded),
                       active |-> ~menu.active,
                       focused |-> focused]
        /\ feedback' = <<AnnounceCall(IF ~isExpanded THEN "Menu opened"
                                      ELSE "Menu closed")>>
        /\ lastOp' = "menuToggleClick"
        /\ UNCHANGED <<form, gallery, announcements>>
        /\ UNCHANGED calendarVars

\* a click outside the toggle and the navigation, part_000:28-35
OutsideClick ==
    /\ menu' = [CloseOnOutsideClick(menu) EXCEPT !.focused = FALSE]
    /\ feedback' = <<>>
    /\ lastOp' = "outsideClick"
    /\ UNCHANGED <<form, gallery, announcements>>
    /\ UNCHANGED calendarVars

\* the keydown listener of the document for the Escape key, part_000:38-44
EscapeKey ==
    /\ menu' = IF menu.active
               THEN [ariaExpanded |-> "false", active |-> FALSE, focused |-> TRUE]
               ELSE menu
    /\ feedback' = <<>>
    /\ lastOp' = "escapeKey"
    /\ UNCHANGED <<form, gallery, announcements>>
    /\ UNCHANGED calendarVars

\* the values a user leaves in a field: nothing, white space, text
FieldValues == {"", " ", "Ann"}

\* String.prototype.trim on the values of FieldValues
Trim(value) == IF value = " " THEN "" ELSE value

\* the elements that may follow a required field in the markup: an empty
\* error-message placeholder, or an element of another class
Placeholder == [className |-> "error-message", textContent |-> "", id |-> ""]
Hint == [className |-> "form-hint", textContent |-> "", id |-> ""]

\* the span validateForm creates, part_000:104-107
ErrorSpan(inputId) ==
    [className |-> "error-message", textContent |-> "This field is required",
     id |-> inputId \o "-error"]

\* the i-th required field as the page loads it; `following` are its next
\* element siblings up to the next field
Field(i, following) ==
    [id |-> "field" \o ToString(i), value |-> "", classError |-> FALSE,
     ariaInvalid |-> "null", ariaDescribedby |-> "null", following |-> following]

\* mutant: a new span is created for every blank field
ValidateInput_AlwaysCreates(input) ==
    IF Trim(input.value) = ""
    THEN [input EXCEPT !.classError = TRUE,
                       !.ariaInvalid = "true",
                       !.ariaDescribedby = input.id \o "-error",
                       !.following = <<ErrorSpan(input.id)>> \o @]
    ELSE [input EXCEPT !.classError = FALSE,
                       !.ariaInvalid = "false",
                       !.following =
                           IF @ # <<>> /\ Head(@).className = "error-message"
                           THEN Tail(@) ELSE @]

\* the body of inputs.forEach, part_000:90-120
ValidateInput(input) ==
    LET hasErrorMessage ==
            /\ input.following # <<>>
            /\ Head(input.following).className = "error-message"
    IN  IF Trim(input.value) = ""
        THEN [input EXCEPT
                !.classError = TRUE,
                !.ariaInvalid = "true",
                !.ariaDescribedby =
                    IF hasErrorMessage THEN @ ELSE input.id \o "-error",
                !.following =
                    IF hasErrorMessage
                    THEN <<[Head(@) EXCEPT
                              !.textContent = "This field is required"]>>
                             \o Tail(@)
                    ELSE <<ErrorSpan(input.id)>> \o @]
        ELSE [input EXCEPT
                !.classError = FALSE,
                !.ariaInvalid = "false",
                !.following = IF hasErrorMessage THEN Tail(@) ELSE @]

\* validateForm, part_000:86-123: the fields it leaves and what it returns
ValidateForm(fields) ==
    [fields  |-> [i \in DOMAIN fields |-> ValidateInput(fields[i])],
     isValid |-> \A i \in DOMAIN fields : Trim(fields[i].value) # ""]

\* the user changes the value of a field from the keyboard
FieldInput ==
    \E i \in DOMAIN form.fields :
        \E value \in FieldValues \ {form.fields[i].value} :
            /\ form' = [form EXCEPT !.fields[i].value = value]
            /\ feedback' = <<>>
            /\ lastOp' = "fieldInput"
            /\ UNCHANGED <<menu, gallery, announcements>>
            /\ UNCHANGED calendarVars

\* the form is submitted with its submit button: the click, outside the menu,
\* reaches the listener of the document, then the submit listener,
\* part_000:75-82, runs. What follows a submit event that is not prevented is
\* decided outside main.js; the session goes on
FormSubmit ==
    LET validated == ValidateForm(form.fields)
    IN  /\ form' = [fields |-> validated.fields,
                    isValid |-> validated.isValid,
                    defaultPrevented |-> ~validated.isValid]
        /\ feedback' =
              IF ~validated.isValid
              THEN <<AnnounceCall(
                       "Form has errors. Please correct them and try again.")>>
              ELSE <<>>
        /\ menu' = [CloseOnOutsideClick(menu) EXCEPT !.focused = FALSE]
        /\ lastOp' = "submit"
        /\ UNCHANGED <<gallery, announcements>>
        /\ UNCHANGED calendarVars

NextMain ==
    \/ MenuToggleClick
    \/ OutsideClick
    \/ EscapeKey
    \/ FieldInput
    \/ FormSubmit

\* the forms of up to MaxFields required fields, each followed by nothing, by
\* an error-message placeholder or by another element
RECURSIVE FormsOf(_)
FormsOf(n) ==
    IF n = 0 THEN { <<>> }
    ELSE LET shorter == FormsOf(n - 1)
         IN  shorter \cup
             { Append(fields, Field(Len(fields) + 1, following)) :
                 fields \in { f \in shorter : Len(f) = n - 1 },
                 following \in { <<>>, <<Placeholder>>, <<Hint>> } }

InitMain ==
    /\ NoCalendar
    /\ lastOp = "init"
    /\ feedback = <<AnnounceCall("Page loaded")>>
    /\ announcements = <<Announcement("Page loaded")>>
    /\ \E ariaExpanded \in {"false", "null"} : menu = ClosedMenu(ariaExpanded)
    /\ \E fields \in FormsOf(MaxFields) \ { <<>> } :
          form = [fields |-> fields, isValid |-> TRUE, defaultPrevented |-> FALSE]
    /\ gallery = NoGallery

SpecMain == InitMain /\ [][NextMain]_vars

-----------------------------------------------------------------------------
(* The image gallery and its lightbox, history.js *)

\* the text of .modal-counter, history.js:72 and 100
CounterText(i, n) == "Image " \o ToString(i) \o " of " \o ToString(n)

\* the alt text of the img of the i-th gallery item
Photo(i) == "Photo " \o ToString(i)

\* the galleries: up to MaxItems items, each with an img (its alt text) or
\* without one (""), at least one with
Galleries ==
    { items \in UNION { [1..n -> {"", "img"}] : n \in 1..MaxItems } :
          \E i \in DOMAIN items : items[i] # "" }

\* the items as the page loads them
GalleryItems(items) ==
    [i \in DOMAIN items |-> IF items[i] = "" THEN "" ELSE Photo(i)]

\* the dialog openImageModal creates for the item of index currentIndex,
\* history.js:46-85
ImageModal(items, currentIndex) ==
    [currentImageIndex |-> currentIndex,
     alt               |-> items[currentIndex + 1],
     counter           |-> CounterText(currentIndex + 1, Len(items)),
     focusPending      |-> TRUE]

\* updateModalImage(index) in the dialog, history.js:87-103
UpdateModalImage(items, modal, index) ==
    LET newImg == items[index + 1]
    IN  IF newImg = "" THEN modal
        ELSE [modal EXCEPT !.alt = newImg,
                           !.counter = CounterText(index + 1, Len(items)),
                           !.currentImageIndex = index]

\* the sequence without its m-th element
RemoveAt(seq, m) == SubSeq(seq, 1, m - 1) \o SubSeq(seq, m + 1, Len(seq))

\* a listener of history.js: it leaves the calendar, the menu and the form,
\* and announces nothing
GalleryOnly ==
    /\ feedback' = <<>>
    /\ UNCHANGED <<menu, form, announcements>>
    /\ UNCHANGED calendarVars

\* the m-th dialog can be operated: the pointer reaches the dialog attached
\* last, which covers the page and the other dialogs (history.js:244-254);
\* the keyboard reaches the dialog that holds the focus
Operable(m) ==
    \/ m = Len(gallery.modals)
    \/ gallery.focus = <<"modal", m>>

\* the user moves the focus with the Tab key: to a gallery item that has
\* tabindex 0, into a dialog, or elsewhere on the page; nothing keeps the
\* focus in a dialog
TabKey ==
    \E target \in { <<"item", i - 1>> : i \in { j \in DOMAIN gallery.items :
                                                  gallery.items[j] # "" } }
                  \cup { <<"modal", m>> : m \in DOMAIN gallery.modals }
                  \cup { <<"page">> } :
        /\ target # gallery.focus
        /\ gallery' = [gallery EXCEPT !.focus = target]
        /\ lastOp' = "tabKey"
        /\ GalleryOnly

\* clickHandler and keyHandler of a gallery item that has an img,
\* history.js:23-36, and openImageModal, history.js:44-82: a click when no
\* dialog covers the page, Enter or Space when the item holds the focus
ActivateItem ==
    \E i \in DOMAIN gallery.items :
        /\ gallery.items[i] # ""
        /\ \/ gallery.modals = <<>>
           \/ gallery.focus = <<"item", i - 1>>
        /\ Len(gallery.modals) < MaxModals
        /\ gallery' = [gallery EXCEPT
                         !.modals = Append(@, ImageModal(gallery.items, i - 1)),
                         !.overflow = "hidden",
                         !.focus = <<"item", i - 1>>]
        /\ lastOp' = "openImageModal"
        /\ GalleryOnly

\* the timeout of openImageModal, history.js:82: closeButton.focus(); the
\* timeout of a dialog that was removed focuses nothing
FocusTimeout ==
    \E m \in DOMAIN gallery.modals :
        /\ gallery.modals[m].focusPending
        /\ gallery' = [gallery EXCEPT !.modals[m].focusPending = FALSE,
                                      !.focus = <<"modal", m>>]
        /\ lastOp' = "focusTimeout"
        /\ GalleryOnly

\* the click listener of .modal-next and the ArrowRight key,
\* history.js:124-127 and 136-138
ModalNext(m) ==
    /\ Operable(m)
    /\ LET modal == gallery.modals[m]
           newIndex == IF modal.currentImageIndex < Len(gallery.items) - 1
                       THEN modal.currentImageIndex + 1 ELSE 0
       IN  gallery' = [gallery EXCEPT
                         !.modals[m] = UpdateModalImage(gallery.items, modal,
                                                        newIndex),
                         !.focus = <<"modal", m>>]
    /\ lastOp' = "modalNext"
    /\ GalleryOnly

\* the click listener of .modal-prev and the ArrowLeft key,
\* history.js:119-122 and 133-135
ModalPrev(m) ==
    /\ Operable(m)
    /\ LET modal == gallery.modals[m]
           newIndex == IF modal.currentImageIndex > 0
                       THEN modal.currentImageIndex - 1
                       ELSE Len(gallery.items) - 1
       IN  gallery' = [gallery EXCEPT
                         !.modals[m] = UpdateModalImage(gallery.items, modal,
                                                        newIndex),
                         !.focus = <<"modal", m>>]
    /\ lastOp' = "modalPrev"
    /\ GalleryOnly

\* closeModal, history.js:106-112, from the close button, the overlay or the
\* Escape key
CloseModal(m) ==
    /\ Operable(m)
    /\ gallery' = [gallery EXCEPT
                     !.modals = RemoveAt(@, m),
                     !.overflow = "",
                     !.focus = <<"item", gallery.modals[m].currentImageIndex>>]
    /\ lastOp' = "closeModal"
    /\ GalleryOnly

NextHistory ==
    \/ TabKey
    \/ ActivateItem
    \/ FocusTimeout
    \/ \E m \in DOMAIN gallery.modals : ModalNext(m)
    \/ \E m \in DOMAIN gallery.modals : ModalPrev(m)
    \/ \E m \in DOMAIN gallery.modals : CloseModal(m)

HistoryLoaded ==
    "History page loaded. Timeline and photo gallery available."

InitHistory ==
    /\ NoCalendar
    /\ lastOp = "init"
    /\ feedback = <<AnnounceCall(HistoryLoaded)>>
    /\ announcements = <<Announcement(HistoryLoaded)>>
    /\ menu = ClosedMenu("false")
    /\ form = NoForm
    /\ \E items \in Galleries :
          gallery = [items |-> GalleryItems(items), modals |-> <<>>,
                     overflow |-> "", focus |-> <<"page">>]

SpecHistory == InitHistory /\ [][NextHistory]_vars

-----------------------------------------------------------------------------
(* Vocabulary of the properties *)

\* a record is marked visible / hidden: both the inline style and data-hidden
MarkedVisible(i) == display[i] = "" /\ dataHidden[i] = "false"
MarkedHidden(i) == display[i] = "none" /\ dataHidden[i] = "true"

\* the records a user (and an export) sees
Shown == { i \in DOMAIN allEvents : display[i] # "none" /\ dataHidden[i] # "true" }

PassesType(t, event) == t = "all" \/ event.type = t
PassesDate(d, event) == d = "all" \/ DateVisible(d, ParseDate(event.date), today)

DateParses(event) == ~ParseDate(event.date).nan
AllDatesParse == \A i \in DOMAIN allEvents : DateParses(allEvents[i])

IsUpcoming(event) == DateParses(event) /\ ParseDate(event.date).t >= today * 24

IsPermutation(order) ==
    /\ Len(order) = Len(allEvents)
    /\ \A i \in DOMAIN allEvents : \E p \in DOMAIN order : order[p] = i

\* the sort key of a record as a number, for the keys that have one
KeyOf(event, sortType) ==
    CASE sortType = "date-asc"  -> ParseDate(event.date).t
      [] sortType = "date-desc" -> 0 - ParseDate(event.date).t
      [] sortType = "title"     -> CollationRank(event.title)
      [] sortType = "type"      -> CollationRank(event.type)

KeysDefined(sortType) == sortType \in {"title", "type"} \/ AllDatesParse

NonDecreasing(order, sortType) ==
    \A p, q \in DOMAIN order :
        p < q => KeyOf(allEvents[order[p]], sortType)
                    <= KeyOf(allEvents[order[q]], sortType)

-----------------------------------------------------------------------------
(* C1: after applyFilters with type filter t and date filter d selected, a *)
(* record is marked visible exactly when it passes the type predicate (t   *)
(* is "all" or equals the record's type) and the date predicate of d; any  *)
(* other record is marked hidden.                                          *)
C1_VisibleIffBothPredicates ==
    lastOp = "applyFilters" =>
        \A i \in DOMAIN allEvents :
            IF PassesType(typeFilter, allEvents[i]) /\ PassesDate(dateFilter, allEvents[i])
            THEN MarkedVisible(i)
            ELSE MarkedHidden(i)

\* both filters are selective: one record passes both predicates, one fails
\* only the type predicate and one fails only the date predicate
C1_Witness ==
    /\ lastOp = "applyFilters"
    /\ typeFilter # "all" /\ dateFilter # "all"
    /\ \E i, j, k \in DOMAIN allEvents :
          /\ MarkedVisible(i)
          /\ MarkedHidden(j)
          /\ PassesDate(dateFilter, allEvents[j]) /\ ~PassesType(typeFilter, allEvents[j])
          /\ MarkedHidden(k)
          /\ PassesType(typeFilter, allEvents[k]) /\ ~PassesDate(dateFilter, allEvents[k])

(* C2: in every state reached by filter changes, sort changes and clear    *)
(* clicks the shown records are the ones the current type and date filter  *)
(* values select and the presentation order is the order of the current    *)
(* sort value.                                                             *)
C2_VisibilityAndOrderAreDerived ==
    lastOp # "initCalendar" =>
        /\ Shown = { i \in DOMAIN allEvents :
                        /\ PassesType(typeFilter, allEvents[i])
                        /\ PassesDate(dateFilter, allEvents[i]) }
        /\ IsPermutation(children)
        /\ KeysDefined(sortControl) => NonDecreasing(children, sortControl)

(* C3: after clearFilters the shown records are exactly the records with   *)
(* date >= today, so the visible count is the number of upcoming records.  *)
C3_ClearShowsUpcomingOnly ==
    lastOp = "clearFilters" =>
        Shown = { i \in DOMAIN allEvents : IsUpcoming(allEvents[i]) }

(* C4: after clearFilters the type filter is "all", the date filter is     *)
(* "upcoming", the sort control is "date-asc", every loaded record is      *)
(* marked visible and the presentation order is the date-asc order.        *)
C4_ClearResetsEverything ==
    lastOp = "clearFilters" =>
        /\ typeFilter = "all"
        /\ dateFilter = "upcoming"
        /\ sortControl = "date-asc"
        /\ \A i \in DOMAIN allEvents : MarkedVisible(i)
        /\ IsPermutation(children)
        /\ AllDatesParse => NonDecreasing(children, "date-asc")

\* a clear that showed a record the "upcoming" filter rejects and that
\* reordered the page
C4_Witness ==
    /\ lastOp = "clearFilters"
    /\ Len(allEvents) = 3
    /\ AllDatesParse
    /\ \E i \in DOMAIN allEvents : ~IsUpcoming(allEvents[i]) /\ MarkedVisible(i)
    /\ children # [i \in DOMAIN allEvents |-> i]

(* C5: the visible set after applyFilters with (t, d) does not depend on   *)
(* the operations that ran before it (it is what applyFilters gives on     *)
(* the freshly loaded page), and applying the same pair once more changes  *)
(* neither the visible set, the visible count nor the empty-state          *)
(* indicator.                                                              *)
C5_FilterIsHistoryFreeAndIdempotent ==
    lastOp = "applyFilters" =>
        LET isVisible == [i \in DOMAIN allEvents |->
                            IsVisible(allEvents[i], typeFilter, dateFilter, today)]
            count == VisibleCount(allEvents, typeFilter, dateFilter, today)
        IN  /\ display = [i \in DOMAIN allEvents |->
                              ShowOrHideDisplay("", isVisible[i])]
            /\ dataHidden = [i \in DOMAIN allEvents |->
                              ShowOrHideAttr("null", isVisible[i])]
            /\ display = [i \in DOMAIN allEvents |->
                              ShowOrHideDisplay(display[i], isVisible[i])]
            /\ dataHidden = [i \in DOMAIN allEvents |->
                              ShowOrHideAttr(dataHidden[i], isVisible[i])]
            /\ Cardinality(Shown) = count
            /\ noEventsDisplay = UpdateNoEventsMessage(count)

\* a filter applied after the page had been sorted, with a mixed result
C5_Witness ==
    /\ lastOp = "applyFilters"
    /\ sortControl = "title"
    /\ children # [i \in DOMAIN allEvents |-> i]
    /\ \E i, j \in DOMAIN allEvents : MarkedVisible(i) /\ MarkedHidden(j)

-----------------------------------------------------------------------------
(* The date filters as the specification words them, on the fields of the  *)
(* record's date string and of today's local date                          *)

WellFormedDate(s) == Len(s) = 4 /\ s[2] \in 1..12

TodayYear == YearFromDay(today)
TodayMonth == MonthFromDay(today) + 1
TodayDay == DateFromDay(today)

\* date >= today, today at local midnight
OnOrAfterToday(s) ==
    \/ s[1] > TodayYear
    \/ s[1] = TodayYear /\ s[2] > TodayMonth
    \/ s[1] = TodayYear /\ s[2] = TodayMonth /\ s[3] >= TodayDay

\* whole days from today to the day of s
DaysAhead(s) == MakeDay(s[1], s[2] - 1, s[3]) - today

\* today <= date <= today + 7 days
WithinSevenDays(s) ==
    /\ OnOrAfterToday(s)
    /\ DaysAhead(s) < 7 \/ (DaysAhead(s) = 7 /\ s[4] = 0)

InMonthOfToday(s) == s[1] = TodayYear /\ s[2] = TodayMonth

InMonthAfterToday(s) ==
    IF TodayMonth = 12
    THEN s[1] = TodayYear + 1 /\ s[2] = 1
    ELSE s[1] = TodayYear /\ s[2] = TodayMonth + 1

(* C6: a record passes the date filter "upcoming" exactly when date >=     *)
(* today, "this-week" exactly when today <= date <= today + 7 days,        *)
(* "this-month" exactly when its date is in today's month and year and is  *)
(* >= today, and "all" always; today is the local midnight.                *)
C6_DateBuckets ==
    (lastOp = "applyFilters" /\ dateFilter # "next-month") =>
        \A i \in DOMAIN allEvents :
            LET s == allEvents[i].date
                passes ==
                    CASE dateFilter = "all" -> TRUE
                      [] dateFilter = "upcoming" ->
                            WellFormedDate(s) /\ OnOrAfterToday(s)
                      [] dateFilter = "this-week" ->
                            WellFormedDate(s) /\ WithinSevenDays(s)
                      [] dateFilter = "this-month" ->
                            /\ WellFormedDate(s)
                            /\ InMonthOfToday(s)
                            /\ OnOrAfterToday(s)
            IN  MarkedVisible(i) <=> (PassesType(typeFilter, allEvents[i]) /\ passes)

\* "this-month" hid an event of an earlier day of today's month
C6_Witness ==
    /\ lastOp = "applyFilters"
    /\ typeFilter = "all"
    /\ dateFilter = "this-month"
    /\ \E i \in DOMAIN allEvents :
          /\ WellFormedDate(allEvents[i].date)
          /\ InMonthOfToday(allEvents[i].date)
          /\ ~OnOrAfterToday(allEvents[i].date)
          /\ MarkedHidden(i)

(* C7: with the date filter "next-month", whatever today is (the 29th,     *)
(* 30th or 31st of a month and December included), a record passes         *)
(* exactly when its date lies in the calendar month and year that follow   *)
(* today's month.                                                          *)
C7_NextMonthIsFollowingMonth ==
    (lastOp = "applyFilters" /\ dateFilter = "next-month") =>
        \A i \in DOMAIN allEvents :
            MarkedVisible(i) <=>
                /\ PassesType(typeFilter, allEvents[i])
                /\ WellFormedDate(allEvents[i].date)
                /\ InMonthAfterToday(allEvents[i].date)

-----------------------------------------------------------------------------
(* C8: after applySorting(key) on records whose dates all parse, the       *)
(* presentation sequence is a permutation of all loaded records, hidden    *)
(* ones included, that is non-decreasing by date for date-asc,             *)
(* non-increasing by date for date-desc, non-decreasing by title for       *)
(* title and non-decreasing by type for type.                              *)
C8_SortedPermutation ==
    (lastOp = "applySorting" /\ AllDatesParse) =>
        /\ IsPermutation(children)
        /\ \A p, q \in DOMAIN children :
              p < q =>
                LET a == allEvents[children[p]]
                    b == allEvents[children[q]]
                IN  CASE sortControl = "date-asc" ->
                            ParseDate(a.date).t <= ParseDate(b.date).t
                      [] sortControl = "date-desc" ->
                            ParseDate(a.date).t >= ParseDate(b.date).t
                      [] sortControl = "title" ->
                            CollationRank(a.title) <= CollationRank(b.title)
                      [] sortControl = "type" ->
                            CollationRank(a.type) <= CollationRank(b.type)

\* a date-desc sort that moved records, one of them hidden
C8_Witness ==
    /\ lastOp = "applySorting"
    /\ AllDatesParse
    /\ sortControl = "date-desc"
    /\ Len(allEvents) = 3
    /\ children # [i \in DOMAIN allEvents |-> i]
    /\ \E i \in DOMAIN allEvents : MarkedHidden(i)

(* C9: applySorting changes the presentation order only: every record's    *)
(* display and data-hidden, the number of visible records and the          *)
(* empty-state indicator are after the call what they were before it.      *)
C9_SortKeepsVisibility ==
    [][lastOp' = "applySorting" =>
          /\ display' = display
          /\ dataHidden' = dataHidden
          /\ Cardinality(Shown') = Cardinality(Shown)
          /\ noEventsDisplay' = noEventsDisplay]_vars

\* a sort that reordered a page on which some records are hidden
C9_Witness ==
    /\ lastOp = "applySorting"
    /\ children # [i \in DOMAIN allEvents |-> i]
    /\ \E i, j \in DOMAIN allEvents : MarkedVisible(i) /\ MarkedHidden(j)

(* C10: sorting is stable: after applySorting, two records that tie on the *)
(* sort key (the same date for date-asc and date-desc, the same title, the *)
(* same type) appear in their markup order, whatever sorts ran before.     *)
TieOn(a, b, sortType) ==
    CASE sortType \in {"date-asc", "date-desc"} ->
            DateParses(a) /\ DateParses(b) /\ ParseDate(a.date).t = ParseDate(b.date).t
      [] sortType = "title" -> a.title = b.title
      [] sortType = "type"  -> a.type = b.type

-----------------------------------------------------------------------------
\* the loaded records all have a date that parses, and no two the same
DistinctDates ==
    /\ AllDatesParse
    /\ \A i, j \in DOMAIN allEvents :
          i # j => ParseDate(allEvents[i].date).t # ParseDate(allEvents[j].date).t

\* the page is in the order applySorting('date-asc') left it in
JustSortedAscending ==
    lastOp \in {"applySorting", "clearFilters"} /\ sortControl = "date-asc"

(* C11: for records with pairwise distinct dates, applySorting('date-desc') *)
(* run after applySorting('date-asc') leaves the presentation order that   *)
(* is exactly the reverse of the order applySorting('date-asc') left.      *)
C11_DescReversesAsc ==
    [][(/\ DistinctDates
        /\ JustSortedAscending
        /\ lastOp' = "applySorting"
        /\ sortControl' = "date-desc") => children' = Reverse(children)]_vars

\* three records with distinct dates, in date-desc order, which is the
\* reverse of their date-asc order and not the markup order
C11_Witness ==
    /\ lastOp = "applySorting"
    /\ sortControl = "date-desc"
    /\ DistinctDates
    /\ Len(allEvents) = 3
    /\ children = Reverse(AppendAll(children, StableSort(allEvents, "date-asc")))
    /\ children # [i \in DOMAIN allEvents |-> i]
    /\ children # Reverse([i \in DOMAIN allEvents |-> i])

-----------------------------------------------------------------------------
\* the step is a click on one of the two bulk export buttons
BulkExportStep == lastOp' \in {"exportToICal", "exportToGoogleCalendar"}

(* C12: when no record is visible, a bulk export (exportToICal and         *)
(* exportToGoogleCalendar alike) downloads no file, opens no link and sets *)
(* the status message to "No events to export. Please adjust filters.";    *)
(* the visibility and the order of the records stay as they were.          *)
C12_EmptyExportIsRefused ==
    [][(BulkExportStep /\ Shown = {}) =>
          /\ download' = NoFile
          /\ openedUrls' = <<>>
          /\ uncaught' = ""
          /\ statusMessage' = NoEventsToExport
          /\ display' = display
          /\ dataHidden' = dataHidden
          /\ children' = children]_vars

\* a bulk export that was refused on a sorted page whose two records the
\* filters hide
C12_Witness ==
    /\ lastOp \in {"exportToICal", "exportToGoogleCalendar"}
    /\ Len(allEvents) = 2
    /\ \A i \in DOMAIN allEvents : MarkedHidden(i)
    /\ children # [i \in DOMAIN allEvents |-> i]
    /\ statusMessage = NoEventsToExport
    /\ download = NoFile
    /\ openedUrls = <<>>

-----------------------------------------------------------------------------
(* The shape of an iCalendar text *)

\* the lines of the text that open or close a VEVENT block, in order
EventBrackets(content) ==
    SelectSeq(content, LAMBDA line : line \in { <<"BEGIN", "VEVENT">>,
                                                <<"END", "VEVENT">> })

\* the SUMMARY values of the text, in order
Summaries(content) ==
    LET lines == SelectSeq(content, LAMBDA line : line[1] = "SUMMARY")
    IN  [k \in DOMAIN lines |-> lines[k][2]]

\* the number of VEVENT blocks of a text whose blocks are well bracketed
EventBlocks(content) == Len(EventBrackets(content)) \div 2

WellBracketed(content) ==
    LET brackets == EventBrackets(content)
    IN  /\ Len(brackets) % 2 = 0
        /\ \A k \in DOMAIN brackets :
              brackets[k] = IF k % 2 = 1 THEN <<"BEGIN", "VEVENT">>
                            ELSE <<"END", "VEVENT">>

\* one calendar that holds one block for each visible record, in the order
\* of the records, and nothing of a hidden record
OneBlockPerVisibleRecord(content) ==
    /\ Len(content) >= 2
    /\ Head(content) = <<"BEGIN", "VCALENDAR">>
    /\ content[Len(content)] = <<"END", "VCALENDAR">>
    /\ WellBracketed(content)
    /\ EventBlocks(content) = Cardinality(Shown)
    /\ Summaries(content) =
          [k \in DOMAIN VisibleEvents |-> allEvents[VisibleEvents[k]].title]

(* C13: when at least one record is visible, exportToICal produces one     *)
(* payload that starts with BEGIN:VCALENDAR, ends with END:VCALENDAR and   *)
(* holds exactly one well-bracketed BEGIN:VEVENT ... END:VEVENT block for  *)
(* each visible record and none for a hidden one; the count in the status  *)
(* message is the number of VEVENT blocks written.                         *)
C13_OneEventBlockPerVisibleRecord ==
    (lastOp = "exportToICal" /\ Shown # {}) =>
        /\ download # NoFile
        /\ OneBlockPerVisibleRecord(download.content)
        /\ statusMessage = ExportedMessage(EventBlocks(download.content))

\* the same for the exports that no exception ended
ICalShapeUnlessThrown ==
    (lastOp = "exportToICal" /\ Shown # {} /\ uncaught = "") =>
        /\ download # NoFile
        /\ OneBlockPerVisibleRecord(download.content)
        /\ statusMessage = ExportedMessage(EventBlocks(download.content))

(* C14: no export (of one record to iCalendar, of the visible records to   *)
(* iCalendar, of the first visible record to a Google link) ends in an     *)
(* unhandled exception, whatever the records hold, a missing or an         *)
(* unparseable datetime included: a single-record export that cannot get   *)
(* its data writes no file and sets the status message to "Unable to       *)
(* export event".                                                          *)
C14_ExportFailuresAreCaught ==
    /\ uncaught = ""
    /\ (lastOp = "exportSingleEvent" /\ download = NoFile)
          => statusMessage = "Unable to export event"

-----------------------------------------------------------------------------
(* C15: a record whose date string is missing or does not parse is loaded  *)
(* all the same; after applyFilters it is hidden under each of the date    *)
(* filters upcoming, this-week, this-month and next-month, and visible     *)
(* under the date filter "all" when its type passes; applyFilters ends     *)
(* without an exception.                                                   *)
C15_UnparseableDateIsFilteredOut ==
    /\ Len(allEvents) = Len(cards)
    /\ \A i \in DOMAIN cards :
          ParseDate(cards[i].dateAttr).nan =>
              /\ allEvents[i].date = cards[i].dateAttr
              /\ lastOp = "applyFilters" =>
                    /\ uncaught = ""
                    /\ IF dateFilter = "all" /\ PassesType(typeFilter, allEvents[i])
                       THEN MarkedVisible(i)
                       ELSE MarkedHidden(i)

\* a record whose date is a string no engine parses, of a type the type
\* filter lets pass, hidden by the date filter
C15_Witness ==
    /\ lastOp = "applyFilters"
    /\ dateFilter \in {"upcoming", "this-week", "this-month", "next-month"}
    /\ \E i \in DOMAIN allEvents :
          /\ allEvents[i].date # <<>>
          /\ ~DateParses(allEvents[i])
          /\ PassesType(typeFilter, allEvents[i])
          /\ MarkedHidden(i)

-----------------------------------------------------------------------------
(* C16: applySorting('date-asc') on records some of which have a date that *)
(* does not parse places each of these after all the records whose date    *)
(* parses and keeps the latter in non-decreasing date order; the order is  *)
(* the same whenever it is applied to the same records.                    *)
C16_UnparseableDatesSortLast ==
    (lastOp = "applySorting" /\ sortControl = "date-asc") =>
        \A p, q \in DOMAIN children :
            p < q =>
                LET a == allEvents[children[p]]
                    b == allEvents[children[q]]
                IN  /\ DateParses(b) => DateParses(a)
                    /\ (DateParses(a) /\ DateParses(b)) =>
                          ParseDate(a.date).t <= ParseDate(b.date).t

(* C18: after initCalendar no two loaded records have the same id, the     *)
(* records whose markup supplies no identifier included.                   *)
C18_IdsAreUnique ==
    \A i, j \in DOMAIN allEvents : i # j => allEvents[i].id # allEvents[j].id

(* C19: after initCalendar no loaded record has the type "all", the        *)
(* records whose markup has no type attribute included.                    *)
C19_NoRecordOfTypeAll ==
    \A i \in DOMAIN allEvents : allEvents[i].type # "all"

-----------------------------------------------------------------------------
\* the UID values of an iCalendar text, in order
Uids(content) ==
    LET lines == SelectSeq(content, LAMBDA line : line[1] = "UID")
    IN  [k \in DOMAIN lines |-> lines[k][2]]

(* C17: the UIDs of any two VEVENT blocks generated in one page session    *)
(* are distinct, two blocks that one bulk export generates in the same     *)
(* millisecond included.                                                   *)
C17_UidsAreDistinct ==
    LET uids == Uids(download.content)
    IN  \A p, q \in DOMAIN uids : p # q => uids[p] # uids[q]

(* C20: once initCalendar has loaded the records in markup order, no       *)
(* filter, sort, clear or export step adds, removes, reorders or modifies  *)
(* an entry of allEvents (nor the markup the entries were read from): only *)
(* the visibility flags and the presentation order change.                 *)
C20_CollectionIsImmutable ==
    [][allEvents' = allEvents /\ cards' = cards]_vars

\* a page that was sorted out of markup order and filtered, and whose
\* visible records were exported: allEvents is still the markup's
C20_Witness ==
    /\ lastOp = "exportToICal"
    /\ download # NoFile
    /\ Len(allEvents) = 3
    /\ children # [i \in DOMAIN allEvents |-> i]
    /\ \E i, j \in DOMAIN allEvents : MarkedHidden(i) /\ MarkedVisible(j)
    /\ allEvents = InitCalendar(cards)

-----------------------------------------------------------------------------
(* C21: right after applyFilters, with N the number of records it marked   *)
(* visible, the status message reads "Showing N event" when N = 1 and      *)
(* "Showing N events" otherwise, and the empty-state indicator is shown    *)
(* exactly when N = 0.                                                     *)
C21_StatusWordingAndEmptyState ==
    lastOp = "applyFilters" =>
        LET N == Cardinality({ i \in DOMAIN allEvents : MarkedVisible(i) })
        IN  /\ statusMessage = IF N = 1 THEN "Showing 1 event"
                               ELSE "Showing " \o ToString(N) \o " events"
            /\ noEventsDisplay = "block" <=> N = 0
            /\ noEventsDisplay \in {"block", "none"}

\* applyFilters left one of three records visible
C21_Witness ==
    /\ lastOp = "applyFilters"
    /\ Len(allEvents) = 3
    /\ Cardinality({ i \in DOMAIN allEvents : MarkedVisible(i) }) = 1
    /\ statusMessage = "Showing 1 event"
    /\ noEventsDisplay = "none"

-----------------------------------------------------------------------------
(* Feedback of the listeners *)

\* the messages the listener passed to updateStatusMessage
StatusCalls(calls) ==
    SelectSeq(calls, LAMBDA call : call[1] = "updateStatusMessage")

\* the messages the listener passed to announceToScreenReader
AnnounceCalls(calls) ==
    SelectSeq(calls, LAMBDA call : call[1] = "announceToScreenReader")

\* C22: every user action on the calendar (filter change, sort change, clear
\* filters, bulk export, single export) updates the visible status message
\* before its listener returns
C22_EveryActionUpdatesStatus ==
    [][UserAction => StatusCalls(feedback') # <<>>]_vars

\* a listener that is not left by an exception gives some feedback, in the
\* status message or in an announcement
C22_Aux_SomeFeedbackUnlessThrown ==
    [][(UserAction /\ uncaught' = "") => feedback' # <<>>]_vars

\* C23: when the user stops acting, the status message is eventually cleared
\* and every announcement element is eventually removed, for good
C23_FeedbackIsTransient ==
    \/ []<><<UserAction>>_vars
    \/ <>[](statusMessage = "" /\ announcements = <<>>)

\* a status message has been shown and cleared, and every announcement removed
C23_Witness ==
    /\ lastOp = "statusTimeout"
    /\ statusMessage = "" /\ statusTimers = 0 /\ announcements = <<>>

\* C25: each announceToScreenReader(message) call of a listener appends to
\* the body exactly one element, with role "status", aria-live "polite", class
\* visually-hidden and the message as its text
C25_OneStatusElementPerAnnouncement ==
    [][UserAction =>
        LET calls == AnnounceCalls(feedback')
            old == Len(announcements)
        IN  /\ Len(announcements') = old + Len(calls)
            /\ SubSeq(announcements', 1, old) = announcements
            /\ \A k \in DOMAIN calls :
                  LET element == announcements'[old + k]
                  IN  /\ element.role = "status"
                      /\ element.ariaLive = "polite"
                      /\ element.className = "visually-hidden"
                      /\ element.textContent = calls[k][2]]_vars

\* a filter change has appended its announcement after one still in the body
C25_Witness ==
    /\ lastOp = "applyFilters"
    /\ Len(announcements) = 2
    /\ announcements[2].textContent = "Filters applied"
    /\ announcements[2].role = "status"

\* C26: the timeout started for an earlier status message never clears a
\* later one: a timeout that clears a displayed message is the only one pending
C26_TimerClearsOnlyItsOwnMessage ==
    [][(StatusTimeout /\ statusMessage # "") => statusTimers = 1]_vars

-----------------------------------------------------------------------------
(* The bulk export to a calendar web link *)

\* the link createGoogleCalendarUrl builds for the i-th record
LinkOf(i) == CreateGoogleCalendarUrl(ExtractEventData(cards[i])).url

\* the records a user sees, in the order of the container: the visible set
FirstShown ==
    LET p == CHOOSE p \in DOMAIN children :
                 /\ children[p] \in Shown
                 /\ \A q \in DOMAIN children : children[q] \in Shown => p <= q
    IN  children[p]

\* C24: a bulk Google Calendar export opens at most one link, and the link is
\* the one of the first visible record, the first of the records shown in the
\* order they are presented in; it downloads nothing
C24_GoogleExportOpensFirstVisibleOnly ==
    [][ExportGoogleClick =>
          /\ Len(openedUrls') <= 1
          /\ download' = NoFile
          /\ openedUrls' # <<>> =>
                (Shown # {} /\ openedUrls' = <<LinkOf(FirstShown)>>)]_vars

\* a bulk Google Calendar export opens at most one link, and the link is the
\* one of the first record of the collection that is visible
C24_Aux_OneLinkOfFirstInCollection ==
    [][ExportGoogleClick =>
          /\ Len(openedUrls') <= 1
          /\ download' = NoFile
          /\ openedUrls' # <<>> =>
                /\ Shown # {}
                /\ LET first == CHOOSE i \in Shown : \A j \in Shown : i <= j
                   IN  openedUrls' = <<LinkOf(first)>>]_vars

-----------------------------------------------------------------------------
(* The mobile menu *)

\* C27: from a closed menu, in every state reached by toggle clicks, clicks
\* outside and Escape presses, aria-expanded is "true" exactly when the
\* navigation has the class active; a click outside and an Escape press leave
\* the menu closed, and a toggle click flips it
C27_ExpandedIffActive ==
    /\ [](menu.ariaExpanded = "true" <=> menu.active)
    /\ [][(OutsideClick \/ EscapeKey \/ FormSubmit) =>
              (~menu'.active /\ menu'.ariaExpanded # "true")]_vars
    /\ [][MenuToggleClick =>
              /\ menu'.active = ~menu.active
              /\ menu'.ariaExpanded = BooleanString(menu'.active)]_vars

\* a toggle click has opened the menu and left the focus on the toggle
C27_Witness ==
    /\ lastOp = "menuToggleClick"
    /\ menu.active /\ menu.ariaExpanded = "true" /\ menu.focused

-----------------------------------------------------------------------------
(* The form validation *)

\* the error-message elements that follow a field
ErrorMessages(input) ==
    { k \in DOMAIN input.following :
          input.following[k].className = "error-message" }

\* the field is blank: empty or white space only
Blank(input) == input.value \in {"", " "}

\* C30: a validation returns true exactly when no required field is blank,
\* leaves one error-message element next to each blank field and none next
\* to the others, sets aria-invalid "true" exactly for the blank fields, and
\* the submission is prevented exactly when it returned false; no field ever
\* has two error-message elements
C30_ValidationMarksBlankFields ==
    /\ [](\A i \in DOMAIN form.fields :
              Cardinality(ErrorMessages(form.fields[i])) <= 1)
    /\ [][FormSubmit =>
            /\ form'.isValid <=> \A i \in DOMAIN form.fields :
                                    ~Blank(form.fields[i])
            /\ form'.defaultPrevented <=> ~form'.isValid
            /\ \A i \in DOMAIN form.fields :
                  LET input == form'.fields[i]
                  IN  /\ input.value = form.fields[i].value
                      /\ Cardinality(ErrorMessages(input)) =
                             IF Blank(input) THEN 1 ELSE 0
                      /\ Blank(input) =>
                             /\ Head(input.following).className = "error-message"
                             /\ Head(input.following).textContent =
                                    "This field is required"
                      /\ input.ariaInvalid =
                             IF Blank(input) THEN "true" ELSE "false"]_vars

\* a form of two fields has been validated a second time: the first field,
\* blank both times, has one error message; the second, filled in since, none
C30_Witness ==
    /\ lastOp = "submit"
    /\ Len(form.fields) = 2
    /\ form.fields[1].value = " "
    /\ form.fields[1].following = <<ErrorSpan("field1")>>
    /\ form.fields[1].ariaInvalid = "true"
    /\ form.fields[2].value = "Ann"
    /\ form.fields[2].ariaDescribedby = "field2-error"
    /\ ErrorMessages(form.fields[2]) = {}
    /\ form.fields[2].ariaInvalid = "false"
    /\ ~form.isValid /\ form.defaultPrevented

-----------------------------------------------------------------------------
(* The lightbox *)

\* the dialog shows the item of its current index: the index is one of the
\* gallery, the image and the counter are those of that item
ShowsCurrentItem(modal) ==
    LET n == Len(gallery.items)
    IN  /\ modal.currentImageIndex \in 0..(n - 1)
        /\ modal.alt = Photo(modal.currentImageIndex + 1)
        /\ modal.alt = gallery.items[modal.currentImageIndex + 1]
        /\ modal.counter = CounterText(modal.currentImageIndex + 1, n)

\* Next moves every dialog it is pressed in to the following item, the first
\* after the last; Previous to the preceding item, the last before the first
StepsAroundTheGallery ==
    LET n == Len(gallery.items)
    IN  \A m \in DOMAIN gallery.modals :
            /\ ModalNext(m) =>
                  gallery'.modals[m].currentImageIndex =
                      (gallery.modals[m].currentImageIndex + 1) % n
            /\ ModalPrev(m) =>
                  gallery'.modals[m].currentImageIndex =
                      (gallery.modals[m].currentImageIndex + n - 1) % n

\* C28: while a lightbox is open over a gallery of n items, its index is
\* within 0..n-1, its image and its "Image i of n" counter are those of the
\* index, and Next (Previous) goes to the following (preceding) item around
\* the gallery, so that n presses visit every item once and return; also when
\* some items contain no image
C28_LightboxCyclesThroughItems ==
    /\ [](\A m \in DOMAIN gallery.modals : ShowsCurrentItem(gallery.modals[m]))
    /\ [][StepsAroundTheGallery]_vars

\* the same in a gallery whose items all contain an image
C28_Aux_CyclesWhenEveryItemHasImage ==
    /\ [](\A m \in DOMAIN gallery.modals : ShowsCurrentItem(gallery.modals[m]))
    /\ [][(\A i \in DOMAIN gallery.items : gallery.items[i] # "")
              => StepsAroundTheGallery]_vars

\* C29: at most one lightbox dialog is attached to the document, and the
\* overflow of the body is hidden exactly while one is attached
C29_OneLightboxAndScrollLock ==
    /\ Len(gallery.modals) <= 1
    /\ gallery.overflow = "hidden" <=> gallery.modals # <<>>

====
